---- MODULE Spec2Model ----
(***************************************************************************)
(* Cursor Updater: version cache, manifest resolution, artifact download,  *)
(* activation by symlink and the "update to latest" orchestration.         *)
(*                                                                         *)
(* Strings that the code takes apart (version identifiers) are sequences   *)
(* of one-character strings.  A Python call that can raise is an operator  *)
(* returning a record whose st field is "ok" or "raise".                   *)
(***************************************************************************)
EXTENDS Integers, Sequences, FiniteSets, TLC

(***************************************************************************)
(* Bounds of the model.                                                    *)
(***************************************************************************)
MaxOps == 2
TickStep == 900
MaxNow == 900
MaxChunks == 1

(***************************************************************************)
(* config.py                                                               *)
(***************************************************************************)
CACHE_MAX_AGE == 15 * 60

(***************************************************************************)
(* Version identifiers                                                     *)
(***************************************************************************)
V120 == <<"1", ".", "2", ".", "0">>
V130 == <<"1", ".", "3", ".", "0">>
V199 == <<"1", ".", "9", ".", "9">>
V1100 == <<"1", ".", "1", "0", ".", "0">>
VBAD == <<"1", ".", "x">>
NoVersion == <<>>

Digits == {"0", "1", "2", "3", "4", "5", "6", "7", "8", "9"}

DigitVal(c) ==
    CASE c = "0" -> 0 [] c = "1" -> 1 [] c = "2" -> 2 [] c = "3" -> 3
      [] c = "4" -> 4 [] c = "5" -> 5 [] c = "6" -> 6 [] c = "7" -> 7
      [] c = "8" -> 8 [] OTHER -> 9

\* str.split("."): the pieces between the dots, empty pieces kept
RECURSIVE SplitDots(_, _)
SplitDots(s, cur) ==
    IF s = <<>> THEN <<cur>>
    ELSE IF Head(s) = "." THEN <<cur>> \o SplitDots(Tail(s), <<>>)
    ELSE SplitDots(Tail(s), Append(cur, Head(s)))

\* int(piece) succeeds on a non-empty run of decimal digits
IntOk(piece) == piece # <<>> /\ \A i \in 1..Len(piece) : piece[i] \in Digits

RECURSIVE IntVal(_, _)
IntVal(piece, acc) ==
    IF piece = <<>> THEN acc
    ELSE IntVal(Tail(piece), 10 * acc + DigitVal(Head(piece)))

\* parse_version_tuple: the tuple of ints, or None on ValueError
parse_version_tuple(version) ==
    LET pieces == SplitDots(version, <<>>)
    IN  IF \A i \in 1..Len(pieces) : IntOk(pieces[i])
        THEN [ok |-> TRUE, t |-> [i \in 1..Len(pieces) |-> IntVal(pieces[i], 0)]]
        ELSE [ok |-> FALSE, t |-> <<>>]

\* Python's < on tuples of ints
RECURSIVE TupleLess(_, _)
TupleLess(a, b) ==
    IF a = <<>> THEN b # <<>>
    ELSE IF b = <<>> THEN FALSE
    ELSE IF Head(a) # Head(b) THEN Head(a) < Head(b)
    ELSE TupleLess(Tail(a), Tail(b))

\* key(v) < key(w) for two parseable identifiers
KeyLess(v, w) == TupleLess(parse_version_tuple(v).t, parse_version_tuple(w).t)

\* one step of a stable descending sort: v goes after every element whose key
\* is not smaller than its own
RECURSIVE InsertDesc(_, _)
InsertDesc(sorted, v) ==
    IF sorted = <<>> THEN <<v>>
    ELSE IF KeyLess(Head(sorted), v) THEN <<v>> \o sorted
    ELSE <<Head(sorted)>> \o InsertDesc(Tail(sorted), v)

RECURSIVE SortDesc(_, _)
SortDesc(todo, sorted) ==
    IF todo = <<>> THEN sorted
    ELSE SortDesc(Tail(todo), InsertDesc(sorted, Head(todo)))

\* sort_versions: sorted(versions, key=parse_version_tuple, reverse=True).
\* A None key makes the first comparison raise TypeError; a list of fewer
\* than two elements is never compared.
sort_versions(versions) ==
    IF Len(versions) >= 2
       /\ \E i \in 1..Len(versions) : ~parse_version_tuple(versions[i]).ok
    THEN [st |-> "raise", val |-> <<>>]
    ELSE [st |-> "ok", val |-> SortDesc(versions, <<>>)]

(***************************************************************************)
(* Platform and manifest                                                   *)
(***************************************************************************)
Archs == {"x86_64", "aarch64", "riscv64"}
PlatformKeys == {"linux-x64", "linux-arm64"}

\* get_platform: the fixed table, unknown architectures default to linux-x64
get_platform(machine) ==
    CASE machine = "x86_64" -> "linux-x64"
      [] machine = "aarch64" -> "linux-arm64"
      [] machine = "arm64" -> "linux-arm64"
      [] OTHER -> "linux-x64"

\* One entry of the "versions" list: the version string and the platform
\* keys that carry a (non-empty) download URL.
Entry(v, plats) == [version |-> v, platforms |-> plats]

NoDoc == <<>>
Some(x) == [st |-> "ok", some |-> TRUE, val |-> x]
Absent == [st |-> "ok", some |-> FALSE, val |-> <<>>]
Raised == [st |-> "raise", some |-> FALSE, val |-> <<>>]

RECURSIVE SelectSeq2(_, _, _)
SelectSeq2(s, plat, acc) ==
    IF s = <<>> THEN acc
    ELSE SelectSeq2(Tail(s), plat,
                    IF plat \in Head(s).platforms
                    THEN Append(acc, Head(s).version) ELSE acc)

\* get_platform_versions: the versions with a URL for the host, in document order
get_platform_versions(doc, machine) == SelectSeq2(doc, get_platform(machine), <<>>)

\* get_latest_remote_version, after get_version_history returned doc
LatestOfDoc(doc, machine) ==
    LET pv == get_platform_versions(doc, machine)
        sorted == sort_versions(pv)
    IN  IF pv = <<>> THEN Absent
        ELSE IF sorted.st = "raise" THEN Raised
        ELSE Some(sorted.val[1])

\* get_download_url, after get_version_history returned doc: TRUE when an
\* entry with this exact version string has a URL for the host
UrlInDoc(doc, version, machine) ==
    \E i \in 1..Len(doc) :
        /\ doc[i].version = version
        /\ get_platform(machine) \in doc[i].platforms

(***************************************************************************)
(* VersionHistoryCache.  The cache file: whether it exists, its mtime and  *)
(* what reading it gives: "json" (parses to doc), "corrupt" (JSONDecode-   *)
(* Error), "badutf8" (bytes that do not decode: UnicodeDecodeError) or     *)
(* "unreadable" (open fails with PermissionError).                         *)
(***************************************************************************)
CacheFile(e, m, k, d) == [exists |-> e, mtime |-> m, kind |-> k, doc |-> d]
NoCache == CacheFile(FALSE, 0, "corrupt", NoDoc)

\* is_cache_valid's comparison
AgeValid(age) == age < CACHE_MAX_AGE

\* The read shared by load and load_stale: open, json.load, and the
\* except (json.JSONDecodeError, OSError) around them.  gone: the file was
\* removed by another process before the open.
ReadCache(c, gone) ==
    IF gone \/ c.kind = "unreadable" \/ c.kind = "corrupt" THEN Absent
    ELSE IF c.kind = "badutf8" THEN Raised
    ELSE Some(c.doc)

\* VersionHistoryCache.load: every outcome, as [res, cache].  The file can
\* disappear after exists() (stat raises FileNotFoundError outside any try)
\* or after stat() (open raises it inside the try).
LoadOutcomes(c, t) ==
    IF ~c.exists THEN {[res |-> Absent, cache |-> c]}
    ELSE {[res |-> Raised, cache |-> NoCache]}
         \cup
         (IF ~AgeValid(t - c.mtime) THEN {[res |-> Absent, cache |-> c]}
          ELSE {[res |-> ReadCache(c, FALSE), cache |-> c],
                [res |-> ReadCache(c, TRUE), cache |-> NoCache]})

\* VersionHistoryCache.load_stale
LoadStaleOutcomes(c) ==
    IF ~c.exists THEN {[res |-> Absent, cache |-> c]}
    ELSE {[res |-> ReadCache(c, FALSE), cache |-> c],
          [res |-> ReadCache(c, TRUE), cache |-> NoCache]}

\* VersionHistoryCache.save: written; or open fails (OSError swallowed, file as
\* it was); or the write fails after the open truncated the file.
SaveOutcomes(c, doc, t) ==
    IF c.exists /\ c.kind = "unreadable" THEN {c}
    ELSE {CacheFile(TRUE, t, "json", doc), c, CacheFile(TRUE, t, "corrupt", NoDoc)}

(***************************************************************************)
(* ManifestResolver                                                        *)
(***************************************************************************)
\* The documents upstream may publish at the fixed URL
MA == <<Entry(V120, {"linux-x64"}), Entry(V130, {"linux-x64"})>>
MC == <<Entry(V120, {"linux-x64"}), Entry(V130, {"linux-arm64"})>>
ManifestPool == {MA, MC}

\* fetch_version_history: the document; or None on URLError, HTTPError,
\* JSONDecodeError, TimeoutError; or an exception the except clause does not
\* list (UnicodeDecodeError from .decode(), ConnectionResetError or
\* IncompleteRead from response.read()).
FetchOutcomes == {Some(m) : m \in ManifestPool} \cup {Absent, Raised}

ManifestLog(l, f, s, st) == [load |-> l, fetch |-> f, saved |-> s, stale |-> st]
NoManifestLog == ManifestLog("none", "none", FALSE, "none")

Verdict(res) == IF res.st = "raise" THEN "raise" ELSE IF res.some THEN "hit" ELSE "miss"

\* get_version_history: every outcome, as [res, cache, log]
get_version_history(c, t) ==
    LET tier3(c2, lg) ==
            {[res |-> o.res, cache |-> o.cache,
              log |-> [lg EXCEPT !.stale = Verdict(o.res)]] : o \in LoadStaleOutcomes(c2)}
        tier2(c2, lg) ==
            UNION {
                IF f.st = "raise"
                THEN {[res |-> Raised, cache |-> c2, log |-> [lg EXCEPT !.fetch = "raise"]]}
                ELSE IF f.some
                THEN {[res |-> f, cache |-> c3,
                       log |-> [lg EXCEPT !.fetch = "hit", !.saved = TRUE]]
                        : c3 \in SaveOutcomes(c2, f.val, t)}
                ELSE tier3(c2, [lg EXCEPT !.fetch = "miss"])
                : f \in FetchOutcomes}
    IN  UNION {
            IF o.res.st = "raise"
            THEN {[res |-> Raised, cache |-> o.cache,
                   log |-> ManifestLog("raise", "none", FALSE, "none")]}
            ELSE IF o.res.some
            THEN {[res |-> o.res, cache |-> o.cache,
                   log |-> ManifestLog("hit", "none", FALSE, "none")]}
            ELSE tier2(o.cache, ManifestLog("miss", "none", FALSE, "none"))
            : o \in LoadOutcomes(c, t)}

(***************************************************************************)
(* The filesystem.  A path is its directory, the stem of its name and the  *)
(* suffix of its name (what Path.with_suffix replaces); a node is absent,  *)
(* a regular file or a symlink.                                            *)
(***************************************************************************)
Versions == {V120, V130, VBAD}

\* The versions a user asks for by name
RequestedVersions == {V120, V130}

Path(d, stem, suffix) == [dir |-> d, stem |-> stem, suffix |-> suffix]
NoPath == Path("", <<>>, "")

\* get_appimage_path: DOWNLOADS_DIR / f"cursor-{version}.AppImage"
get_appimage_path(version) == Path("downloads", <<"cursor-">> \o version, "AppImage")

\* CURSOR_APPIMAGE, the ActivePointer, and the names in its directory that
\* differ from it in case only
CURSOR_APPIMAGE == Path("bin", <<"cursor">>, "AppImage")
VariantUpper == Path("bin", <<"Cursor">>, "AppImage")
VariantLower == Path("bin", <<"cursor">>, "appimage")

\* file_path.with_suffix(".AppImage.backup")
BackupPathOf(p) == [p EXCEPT !.suffix = "AppImage.backup"]

ArtifactPaths == {get_appimage_path(v) : v \in Versions}
PointerDirPaths == {CURSOR_APPIMAGE, VariantUpper, VariantLower}
Paths == ArtifactPaths \cup PointerDirPaths
         \cup {BackupPathOf(p) : p \in ArtifactPaths \cup PointerDirPaths}

AbsentNode == [t |-> "absent", to |-> NoPath, data |-> <<>>]
FileNode(data) == [t |-> "file", to |-> NoPath, data |-> data]
LinkNode(target) == [t |-> "link", to |-> target, data |-> <<>>]

\* The bytes of a downloaded artifact of version v, and of a file the tool
\* did not write
ArtifactData(v) == <<"artifact">> \o v
PartialData(v) == <<"partial">> \o v
LegacyData == <<"legacy">>

\* Where a path leads after following symlinks (at most one per path)
RECURSIVE Follow(_, _, _)
Follow(f, p, fuel) ==
    IF fuel = 0 \/ p \notin DOMAIN f \/ f[p].t # "link" THEN p
    ELSE Follow(f, f[p].to, fuel - 1)

\* Path.resolve()
Resolve(f, p) == Follow(f, p, Cardinality(Paths))

\* Path.is_symlink() and Path.exists() (which follows symlinks)
IsSymlink(f, p) == f[p].t = "link"
Exists(f, p) == LET q == Resolve(f, p) IN q \in DOMAIN f /\ f[q].t = "file"

\* str.lower() on the two parts of a name
LowerStem(stem) == IF stem = <<"Cursor">> THEN <<"cursor">> ELSE stem
LowerSuffix(suffix) == IF suffix = "AppImage" THEN "appimage" ELSE suffix

\* existing_file.name.lower() == "cursor.appimage"
IsCursorAppImageName(p) ==
    LowerStem(p.stem) = <<"cursor">> /\ LowerSuffix(p.suffix) = "appimage"

\* VERSION_PATTERN.search(filename): cursor-([0-9.]+)\.AppImage
extract_version_from_filename(p) ==
    IF /\ p.suffix = "AppImage"
       /\ Len(p.stem) >= 2
       /\ p.stem[1] = "cursor-"
       /\ \A i \in 2..Len(p.stem) : p.stem[i] \in Digits \cup {"."}
    THEN Some(Tail(p.stem))
    ELSE Absent

(***************************************************************************)
(* LocalVersionProbe                                                       *)
(***************************************************************************)
\* A set of versions as a list (the order of a directory listing)
RECURSIVE SetToSeq(_)
SetToSeq(S) ==
    IF S = {} THEN <<>>
    ELSE LET x == CHOOSE y \in S : TRUE IN <<x>> \o SetToSeq(S \ {x})

\* The version an AppImage carries in its embedded desktop file
EmbeddedVersion(f, p) == Tail(f[Resolve(f, p)].data)

\* get_latest_local_version: every outcome.  A file whose name the pattern
\* matches gives that version; for any other file the archive probe gives
\* the embedded version or nothing (no metadata, failed extraction).
get_latest_local_version(f) ==
    LET files == {p \in ArtifactPaths : f[p].t # "absent"}
        named == {p \in files : extract_version_from_filename(p).some}
        probed == {p \in files \ named :
                     Exists(f, p) /\ Head(f[Resolve(f, p)].data) = "artifact"}
        result(found) ==
            LET versions == SetToSeq({extract_version_from_filename(p).val : p \in named}
                                     \cup {EmbeddedVersion(f, p) : p \in found})
                sorted == sort_versions(versions)
            IN  IF versions = <<>> THEN Absent
                ELSE IF sorted.st = "raise" THEN Raised
                ELSE Some(sorted.val[1])
    IN  {result(found) : found \in SUBSET probed}

\* The files get_latest_local_version gives to extract_version_from_appimage,
\* each of which gets a temporary directory, and how many of these
\* directories the call can leave behind (rmtree fails, OSError swallowed)
ProbedFiles(f) ==
    {p \in ArtifactPaths : f[p].t # "absent" /\ ~extract_version_from_filename(p).some}
TempDirsLeft(f) == 0..Cardinality(ProbedFiles(f))

(***************************************************************************)
(* State                                                                    *)
(***************************************************************************)
VARIABLES
    cache,      \* the cache file
    now,        \* time.time()
    arch,       \* platform.machine()
    fs,         \* the artifact directory and the ActivePointer's directory
    desktop,    \* the launcher descriptor: "absent", "stale", "active", "badutf8"
    op,         \* the operation in progress, or "idle"
    pc,         \* its position
    loc,        \* its local variables
    pre,        \* the filesystem when it started
    log,        \* what it has done so far
    ret,        \* what the last finished operation returned
    nops,       \* operations started
    tmp         \* temporary extraction directories on disk

vars == <<cache, now, arch, fs, desktop, op, pc, loc, pre, log, ret, nops, tmp>>

Locals(v, remote, local, k, ctx, link, target, victim, back) ==
    [version |-> v, latest_remote |-> remote, latest_local |-> local, k |-> k,
     ctx |-> ctx, link |-> link, target |-> target, victim |-> victim, back |-> back]
NoLocals == Locals(NoVersion, NoVersion, Absent, 0, "", NoPath, NoPath, NoPath, "")

Log(m, e) == [manifest |-> m, events |-> e]
NoLog == Log(<<>>, <<>>)

Ret(o, v, st, b, val, doc) ==
    [op |-> o, arg |-> v, st |-> st, b |-> b, val |-> val, doc |-> doc]
NoRet == Ret("none", NoVersion, "ok", FALSE, NoVersion, NoDoc)

\* The states the installation can be in when the tool starts
InitCaches == {NoCache, CacheFile(TRUE, 0, "json", MA)}

InitArtifactSets == {{}, {V120}, {V120, V130}, {V120, VBAD}}

FilesystemWith(have, ptr, up, low) ==
    [p \in Paths |->
        IF p \in ArtifactPaths
        THEN (IF \E v \in have : p = get_appimage_path(v)
              THEN FileNode(ArtifactData(CHOOSE v \in have : p = get_appimage_path(v)))
              ELSE AbsentNode)
        ELSE IF p = CURSOR_APPIMAGE THEN ptr
        ELSE IF p = VariantUpper THEN up
        ELSE IF p = VariantLower THEN low
        ELSE AbsentNode]

InitFilesystems ==
    {FilesystemWith(have, ptr, var[1], var[2]) :
     have \in InitArtifactSets,
     ptr \in {AbsentNode, FileNode(LegacyData), LinkNode(get_appimage_path(V120))},
     var \in {<<AbsentNode, AbsentNode>>,
              <<FileNode(LegacyData), AbsentNode>>,
              <<AbsentNode, LinkNode(get_appimage_path(V120))>>,
              <<FileNode(LegacyData), FileNode(LegacyData)>>}}

\* with a launcher descriptor
InitLauncherFilesystems ==
    {FilesystemWith({V120, V130}, LinkNode(get_appimage_path(V120)), AbsentNode, AbsentNode),
     FilesystemWith({V120}, FileNode(LegacyData), AbsentNode, AbsentNode)}

NoFiles == [p \in Paths |-> AbsentNode]

InitWith(caches, nows, archs, filesystems, desktops) ==
    /\ cache \in caches
    /\ now \in nows
    /\ arch \in archs
    /\ fs \in {f \in filesystems :
                 \A p \in PointerDirPaths :
                     f[p].t = "link" => f[f[p].to].t = "file"}
    /\ desktop \in desktops
    /\ op = "idle"
    /\ pc = "idle"
    /\ loc = NoLocals
    /\ pre = fs
    /\ log = NoLog
    /\ ret = NoRet
    /\ nops = 0
    /\ tmp = 0

Init ==
    \/ InitWith(InitCaches, {0}, {"x86_64"}, InitFilesystems, {"absent"})
    \/ InitWith({NoCache}, {0}, {"x86_64"}, InitLauncherFilesystems, {"stale", "badutf8"})

(***************************************************************************)
(* Entering and leaving an operation                                        *)
(***************************************************************************)
Idle == op = "idle" /\ nops < MaxOps

Begin(o, p, l) ==
    /\ op' = o
    /\ pc' = p
    /\ loc' = l
    /\ pre' = fs
    /\ log' = NoLog
    /\ ret' = NoRet
    /\ nops' = nops + 1

Finish(r) ==
    /\ op' = "idle"
    /\ pc' = "idle"
    /\ loc' = NoLocals
    /\ ret' = r

\* Time passes.  Only get_version_history reads the clock, so it is enough to
\* let time pass between operations and before the call in download_version.
Tick ==
    /\ pc \in {"idle", "d_url"}
    /\ now + TickStep <= MaxNow
    /\ now' = now + TickStep
    /\ UNCHANGED <<cache, arch, fs, desktop, op, pc, loc, pre, log, ret, nops, tmp>>

(***************************************************************************)
(* The cache and the manifest, called on their own                          *)
(***************************************************************************)
\* VersionHistoryCache.load()
CallLoad ==
    /\ Idle
    /\ \E o \in LoadOutcomes(cache, now) :
        /\ cache' = o.cache
        /\ op' = "idle" /\ pc' = "idle" /\ loc' = NoLocals
        /\ pre' = fs /\ nops' = nops + 1
        /\ log' = Log(<<[cache |-> cache, now |-> now]>>, <<>>)
        /\ ret' = Ret("load", NoVersion, o.res.st, o.res.some, NoVersion, o.res.val)
    /\ UNCHANGED <<now, arch, fs, desktop, tmp>>

\* get_version_history()
CallGetManifest ==
    /\ Idle
    /\ \E o \in get_version_history(cache, now) :
        /\ cache' = o.cache
        /\ op' = "idle" /\ pc' = "idle" /\ loc' = NoLocals
        /\ pre' = fs /\ nops' = nops + 1
        /\ log' = Log(<<o.log>>, <<>>)
        /\ ret' = Ret("get_version_history", NoVersion, o.res.st, o.res.some,
                      NoVersion, o.res.val)
    /\ UNCHANGED <<now, arch, fs, desktop, tmp>>

\* get_latest_remote_version()
LatestRemoteOf(res, machine) ==
    IF res.st = "raise" THEN Raised
    ELSE IF ~res.some THEN Absent
    ELSE LatestOfDoc(res.val, machine)

CallLatestRemote ==
    /\ Idle
    /\ \E o \in get_version_history(cache, now) :
        LET r == LatestRemoteOf(o.res, arch) IN
        /\ cache' = o.cache
        /\ op' = "idle" /\ pc' = "idle" /\ loc' = NoLocals
        /\ pre' = fs /\ nops' = nops + 1
        /\ log' = Log(<<o.log>>, <<>>)
        /\ ret' = Ret("get_latest_remote_version", NoVersion, r.st, r.some, r.val,
                      IF o.res.st = "ok" /\ o.res.some THEN o.res.val ELSE NoDoc)
    /\ UNCHANGED <<now, arch, fs, desktop, tmp>>

(***************************************************************************)
(* ArtifactStore: download_version and download_file                        *)
(***************************************************************************)

Note(e) == [log EXCEPT !.events = Append(@, e)]
NoteManifest(l, e) == [log EXCEPT !.manifest = Append(@, l), !.events = Append(@, e)]

\* download_version returns b to its caller: the user, or update_cursor,
\* which goes on to select_version or gives up
DownloadReturns(b, lg) ==
    /\ log' = [lg EXCEPT !.events = Append(@, IF b THEN "download_true" ELSE "download_false")]
    /\ IF op = "update_cursor" /\ b
       THEN /\ pc' = "s_check"
            /\ UNCHANGED <<op, loc, ret>>
       ELSE Finish(Ret(op, loc.version, "ok", b, NoVersion, NoDoc))

\* an exception leaves the operation
Raises(lg) ==
    /\ log' = [lg EXCEPT !.events = Append(@, "raise")]
    /\ Finish(Ret(op, loc.version, "raise", FALSE, NoVersion, NoDoc))

\* if filepath.exists(): "Already downloaded"
AlreadyDownloaded(f, version) == Exists(f, get_appimage_path(version))

\* A mutant of UnlinkPartial: the partial file left in place
UnlinkPartialSkipped(f, path) == f

\* the except clause of download_file: if filepath.exists(): filepath.unlink()
UnlinkPartial(f, path) == [f EXCEPT ![path] = AbsentNode]

\* download_version(v), called by the user
StartDownload ==
    /\ Idle
    /\ \E v \in RequestedVersions :
        Begin("download_version", "d_url", [NoLocals EXCEPT !.version = v])
    /\ UNCHANGED <<cache, now, arch, fs, desktop, tmp>>

\* get_download_url, then the short-circuit on filepath.exists()
DownloadResolve ==
    /\ pc = "d_url"
    /\ \E o \in get_version_history(cache, now) :
        LET lg == NoteManifest(o.log, "download") IN
        /\ cache' = o.cache
        /\ IF o.res.st = "raise" THEN Raises(lg)
           ELSE IF ~(o.res.some /\ UrlInDoc(o.res.val, loc.version, arch))
           THEN DownloadReturns(FALSE, [lg EXCEPT !.events = Append(@, "url_missing")])
           ELSE IF AlreadyDownloaded(fs, loc.version)
           THEN DownloadReturns(TRUE, [lg EXCEPT !.events = Append(@, "url_found")])
           ELSE /\ pc' = "d_request"
                /\ log' = [lg EXCEPT !.events = Append(@, "url_found")]
                /\ UNCHANGED <<op, loc, ret>>
    /\ UNCHANGED <<now, arch, fs, desktop, pre, nops, tmp>>

\* download_file up to open(filepath, "wb"): the request fails (caught), the
\* Content-Length header is not a number (ValueError, not caught), the open
\* fails (caught), or the file is created empty where the path leads
DownloadRequest ==
    /\ pc = "d_request"
    /\ LET path == get_appimage_path(loc.version)
           lg == Note("transfer") IN
       \/ /\ pc' = "d_fail"
          /\ log' = [lg EXCEPT !.events = Append(@, "failed_open")]
          /\ UNCHANGED <<fs, op, loc, ret>>
       \/ /\ Raises(lg)
          /\ UNCHANGED fs
       \/ /\ fs' = [fs EXCEPT ![Resolve(fs, path)] = FileNode(PartialData(loc.version))]
          /\ pc' = "d_chunk" /\ log' = lg
          /\ loc' = [loc EXCEPT !.k = 0]
          /\ UNCHANGED <<op, ret>>
    /\ UNCHANGED <<cache, now, arch, desktop, pre, nops, tmp>>

\* one turn of the loop: a chunk read and written, the empty read that ends
\* the body, a failure the except clause lists, or one it does not
\* (http.client.IncompleteRead)
DownloadChunk ==
    /\ pc = "d_chunk"
    /\ \/ /\ loc.k < MaxChunks
          /\ loc' = [loc EXCEPT !.k = @ + 1]
          /\ UNCHANGED <<op, pc, log, ret>>
       \/ /\ pc' = "d_chmod"
          /\ UNCHANGED <<op, loc, log, ret>>
       \/ /\ pc' = "d_fail"
          /\ log' = Note("failed_chunk")
          /\ UNCHANGED <<op, loc, ret>>
       \/ Raises(log)
    /\ UNCHANGED <<cache, now, arch, fs, desktop, pre, nops, tmp>>

\* os.chmod(filepath, 0o755), inside the try
DownloadChmod ==
    /\ pc = "d_chmod"
    /\ \/ /\ fs' = [fs EXCEPT ![Resolve(fs, get_appimage_path(loc.version))] =
                        FileNode(ArtifactData(loc.version))]
          /\ DownloadReturns(TRUE, Note("written"))
       \/ /\ pc' = "d_fail"
          /\ log' = Note("failed_chmod")
          /\ UNCHANGED <<fs, op, loc, ret>>
    /\ UNCHANGED <<cache, now, arch, desktop, pre, nops, tmp>>

\* the except clause: the partial file is unlinked (which can itself raise)
DownloadFailed ==
    /\ pc = "d_fail"
    /\ LET path == get_appimage_path(loc.version) IN
       IF Exists(fs, path)
       THEN \/ /\ fs' = UnlinkPartial(fs, path)
               /\ DownloadReturns(FALSE, log)
            \/ /\ Raises(log)
               /\ UNCHANGED fs
       ELSE /\ DownloadReturns(FALSE, log)
            /\ UNCHANGED fs
    /\ UNCHANGED <<cache, now, arch, desktop, pre, nops, tmp>>

(***************************************************************************)
(* ActivationEngine: select_version, create_symlink, _remove_case_variants, *)
(* _backup_file, update_desktop_file                                        *)
(***************************************************************************)
\* select_version returns b to its caller; update_cursor returns the same
SelectReturns(b, lg) ==
    /\ log' = [lg EXCEPT !.events = Append(@, IF b THEN "select_true" ELSE "select_false")]
    /\ Finish(Ret(op, loc.version, "ok", b, NoVersion, NoDoc))

\* A mutant of ArtifactPresent: the test for a missing artifact dropped
ArtifactPresentAlways(f, version) == TRUE

\* appimage_path.exists()
ArtifactPresent(f, version) == Exists(f, get_appimage_path(version))

\* A mutant of LinkAction: the two tests in the other order, so that a
\* symlink to an existing file is backed up
LinkActionExistsFirst(f, link) ==
    IF Exists(f, link) THEN "backup"
    ELSE IF IsSymlink(f, link) THEN "unlink"
    ELSE "none"

\* create_symlink's treatment of what is at link: a symlink is unlinked, any
\* other existing file is backed up
LinkAction(f, link) ==
    IF IsSymlink(f, link) THEN "unlink"
    ELSE IF Exists(f, link) THEN "backup"
    ELSE "none"

\* select_version(v), called by the user
StartSelect ==
    /\ Idle
    /\ \E v \in RequestedVersions :
        Begin("select_version", "s_check", [NoLocals EXCEPT !.version = v])
    /\ UNCHANGED <<cache, now, arch, fs, desktop, tmp>>

\* if not appimage_path.exists(): return False
SelectCheck ==
    /\ pc = "s_check"
    /\ LET target == get_appimage_path(loc.version) IN
       IF ~ArtifactPresent(fs, loc.version)
       THEN SelectReturns(FALSE, Note("select"))
       ELSE /\ pc' = "c_variants"
            /\ loc' = [loc EXCEPT !.ctx = "main", !.link = CURSOR_APPIMAGE,
                                  !.target = target]
            /\ log' = Note("select")
            /\ UNCHANGED <<op, ret>>
    /\ UNCHANGED <<cache, now, arch, fs, desktop, pre, nops, tmp>>

\* The files CURSOR_APPIMAGE_PATTERNS finds in a directory: those whose name
\* follows the ActivePointer's naming convention but differs from it in case
GlobPatterns(f, dir) ==
    {p \in {VariantUpper, VariantLower} : p.dir = dir /\ f[p].t # "absent"}

\* An OSError inside create_symlink: select_version lets it through for the
\* ActivePointer, and swallows it (try/except OSError: pass) for the relink
\* of a running instance's path
OSErrorInCreateSymlink ==
    IF loc.ctx = "relink" THEN SelectReturns(TRUE, log) ELSE Raises(log)

\* _backup_file(victim): an existing backup is unlinked, then the file is renamed
BackupFile ==
    /\ pc = "c_backup"
    /\ LET backup == BackupPathOf(loc.victim)
           cleared == IF Exists(fs, backup) THEN [fs EXCEPT ![backup] = AbsentNode]
                      ELSE fs IN
       \/ /\ fs' = [cleared EXCEPT ![backup] = fs[loc.victim], ![loc.victim] = AbsentNode]
          /\ pc' = loc.back
          /\ log' = Note("backup")
          /\ loc' = [loc EXCEPT !.victim = NoPath, !.back = ""]
          /\ UNCHANGED <<op, ret>>
       \/ /\ fs' = cleared
          /\ OSErrorInCreateSymlink
       \/ /\ Exists(fs, backup)
          /\ UNCHANGED fs
          /\ OSErrorInCreateSymlink
    /\ UNCHANGED <<cache, now, arch, desktop, pre, nops, tmp>>

\* _remove_case_variants(link): the first file found whose lowered name is
\* cursor.appimage and which is not link is unlinked (a symlink) or backed
\* up (a regular file); then the function returns
RemoveCaseVariants ==
    /\ pc = "c_variants"
    /\ LET found == {p \in GlobPatterns(fs, loc.link.dir) :
                        IsCursorAppImageName(p) /\ p # loc.link} IN
       IF found = {}
       THEN /\ pc' = "c_replace"
            /\ UNCHANGED <<fs, op, loc, log, ret>>
       ELSE \E p \in found :
            IF IsSymlink(fs, p)
            THEN \/ /\ fs' = [fs EXCEPT ![p] = AbsentNode]
                    /\ pc' = "c_replace"
                    /\ UNCHANGED <<op, loc, log, ret>>
                 \/ /\ UNCHANGED fs
                    /\ OSErrorInCreateSymlink
            ELSE /\ pc' = "c_backup"
                 /\ loc' = [loc EXCEPT !.victim = p, !.back = "c_replace"]
                 /\ UNCHANGED <<fs, op, log, ret>>
    /\ UNCHANGED <<cache, now, arch, desktop, pre, nops, tmp>>

\* if link.is_symlink(): link.unlink()  elif link.exists(): _backup_file(link)
ReplaceLink ==
    /\ pc = "c_replace"
    /\ IF LinkAction(fs, loc.link) = "unlink"
       THEN \/ /\ fs' = [fs EXCEPT ![loc.link] = AbsentNode]
               /\ pc' = "c_symlink"
               /\ log' = Note("unlink")
               /\ UNCHANGED <<op, loc, ret>>
            \/ /\ UNCHANGED fs
               /\ OSErrorInCreateSymlink
       ELSE IF LinkAction(fs, loc.link) = "backup"
       THEN /\ pc' = "c_backup"
            /\ loc' = [loc EXCEPT !.victim = loc.link, !.back = "c_symlink"]
            /\ UNCHANGED <<fs, op, log, ret>>
       ELSE /\ pc' = "c_symlink"
            /\ UNCHANGED <<fs, op, loc, log, ret>>
    /\ UNCHANGED <<cache, now, arch, desktop, pre, nops, tmp>>

\* link.symlink_to(target), with OSError turned into False.  select_version
\* fails on False for the ActivePointer and ignores the relink's result.
MakeSymlink ==
    /\ pc = "c_symlink"
    /\ \/ /\ fs' = [fs EXCEPT ![loc.link] = LinkNode(loc.target)]
          /\ IF loc.ctx = "main"
             THEN /\ pc' = "s_desktop"
                  /\ log' = Note("linked")
                  /\ UNCHANGED <<op, loc, ret>>
             ELSE SelectReturns(TRUE, Note("relinked"))
       \/ /\ UNCHANGED fs
          /\ IF loc.ctx = "main"
             THEN SelectReturns(FALSE, Note("link_failed"))
             ELSE SelectReturns(TRUE, log)
    /\ UNCHANGED <<cache, now, arch, desktop, pre, nops, tmp>>

\* update_desktop_file: nothing without a file; read_text can fail with
\* OSError (caught) or UnicodeDecodeError (not caught); the Exec line is
\* rewritten, unless the write fails (caught)
UpdateDesktopFile ==
    /\ pc = "s_desktop"
    /\ IF desktop = "badutf8"
       THEN Raises(log) /\ UNCHANGED desktop
       ELSE /\ desktop' \in (IF desktop = "absent" THEN {desktop} ELSE {desktop, "active"})
            /\ pc' = "s_running"
            /\ UNCHANGED <<op, loc, log, ret>>
    /\ UNCHANGED <<cache, now, arch, fs, pre, nops, tmp>>

\* get_running_cursor_path: the resolved path of an existing file that a
\* command line names, ending in .AppImage and containing "cursor"; or None
RunningPaths(f) ==
    {Resolve(f, p) : p \in {q \in ArtifactPaths \cup {CURSOR_APPIMAGE, VariantUpper} :
                              Exists(f, q)}}

\* the relink of the path an instance is running from, when it is not where
\* the ActivePointer leads and its directory is writable
RelinkRunning ==
    /\ pc = "s_running"
    /\ \/ SelectReturns(TRUE, log)
       \/ \E running_path \in RunningPaths(fs) :
            /\ running_path # Resolve(fs, CURSOR_APPIMAGE)
            /\ pc' = "c_variants"
            /\ loc' = [loc EXCEPT !.ctx = "relink", !.link = running_path]
            /\ UNCHANGED <<op, log, ret>>
    /\ UNCHANGED <<cache, now, arch, fs, desktop, pre, nops, tmp>>

(***************************************************************************)
(* UpdateOrchestrator: update_cursor                                        *)
(***************************************************************************)
StartUpdate ==
    /\ Idle
    /\ Begin("update_cursor", "u_remote", NoLocals)
    /\ UNCHANGED <<cache, now, arch, fs, desktop, tmp>>

\* latest_remote = get_latest_remote_version(); if not latest_remote: return False
UpdateRemote ==
    /\ pc = "u_remote"
    /\ \E o \in get_version_history(cache, now) :
        LET r == LatestRemoteOf(o.res, arch)
            lg == NoteManifest(o.log, "remote") IN
        /\ cache' = o.cache
        /\ IF r.st = "raise" THEN Raises(lg)
           ELSE IF ~r.some
           THEN /\ log' = lg
                /\ Finish(Ret(op, NoVersion, "ok", FALSE, NoVersion, NoDoc))
           ELSE /\ pc' = "u_local"
                /\ loc' = [loc EXCEPT !.version = r.val, !.latest_remote = r.val]
                /\ log' = lg
                /\ UNCHANGED <<op, ret>>
    /\ UNCHANGED <<now, arch, fs, desktop, pre, nops, tmp>>

\* latest_local = get_latest_local_version();
\* if latest_remote != latest_local: download_version(latest_remote)
UpdateLocal ==
    /\ pc = "u_local"
    /\ \E l \in get_latest_local_version(fs) :
        IF l.st = "raise" THEN Raises(Note("local"))
        ELSE /\ pc' = IF l.some /\ l.val = loc.latest_remote THEN "s_check" ELSE "d_url"
             /\ loc' = [loc EXCEPT !.latest_local = l]
             /\ log' = Note(IF l.some /\ l.val = loc.latest_remote
                            THEN "local_equal" ELSE "local_differs")
             /\ UNCHANGED <<op, ret>>
    /\ tmp' \in {tmp + n : n \in TempDirsLeft(fs)}
    /\ UNCHANGED <<cache, now, arch, fs, desktop, pre, nops>>

Next ==
    \/ Tick
    \/ StartDownload
    \/ DownloadResolve
    \/ DownloadRequest
    \/ DownloadChunk
    \/ DownloadChmod
    \/ DownloadFailed
    \/ StartSelect
    \/ SelectCheck
    \/ RemoveCaseVariants
    \/ BackupFile
    \/ ReplaceLink
    \/ MakeSymlink
    \/ UpdateDesktopFile
    \/ RelinkRunning
    \/ StartUpdate
    \/ UpdateRemote
    \/ UpdateLocal

Spec == Init /\ [][Next]_vars

(***************************************************************************)
(* The cache and the manifest on their own: any cache file, any host, any  *)
(* short document, and the three calls.                                     *)
(***************************************************************************)
MaxEntries == 2

DocVersions == {V130, V199, V1100, VBAD}
DocEntries == {Entry(v, {k}) : v \in DocVersions, k \in PlatformKeys}
Docs == UNION {[1..n -> DocEntries] : n \in 0..MaxEntries}

ManifestCaches ==
    {NoCache} \cup {CacheFile(TRUE, 0, "json", d) : d \in Docs}
    \cup {CacheFile(TRUE, 0, k, NoDoc) : k \in {"corrupt", "badutf8", "unreadable"}}

InitManifest ==
    InitWith(ManifestCaches, {0, CACHE_MAX_AGE - 1, CACHE_MAX_AGE}, Archs, {NoFiles},
             {"absent"})

NextManifest ==
    \/ CallLoad
    \/ CallGetManifest
    \/ CallLatestRemote

SpecManifest == InitManifest /\ [][NextManifest]_vars

(***************************************************************************)
(* LocalVersionProbe step by step: extract_version_from_appimage on any     *)
(* existing AppImage, as get_latest_local_version and get_local_version     *)
(* call it.                                                                 *)
(***************************************************************************)
ProbeFrame == UNCHANGED <<cache, now, arch, fs, desktop, pre, nops>>

ProbeReturns(res, lg) ==
    /\ log' = lg
    /\ Finish(Ret(op, NoVersion, res.st, res.some, res.val, NoDoc))

\* shutil.rmtree(extract_dir)
RemoveTree(n) == n - 1

\* extract_version_from_appimage(appimage_path)
StartProbe ==
    /\ Idle
    /\ \E p \in ArtifactPaths \cup {CURSOR_APPIMAGE} :
        /\ Exists(fs, p)
        /\ Begin("extract_version_from_appimage", "p_name", [NoLocals EXCEPT !.target = p])
    /\ UNCHANGED <<cache, now, arch, fs, desktop, tmp>>

\* version = extract_version_from_filename(appimage_path.name)
ProbeName ==
    /\ pc = "p_name"
    /\ LET version == extract_version_from_filename(loc.target) IN
       IF version.some
       THEN ProbeReturns(version, Note("by_name"))
       ELSE /\ pc' = "p_mkdtemp"
            /\ UNCHANGED <<op, loc, log, ret>>
    /\ UNCHANGED tmp
    /\ ProbeFrame

\* extract_dir = Path(tempfile.mkdtemp(...)): the directory is made, or
\* OSError (caught) with extract_dir still None
ProbeMkdtemp ==
    /\ pc = "p_mkdtemp"
    /\ \/ /\ tmp' = tmp + 1
          /\ pc' = "p_extract"
          /\ loc' = [loc EXCEPT !.k = 1]
          /\ log' = Note("mkdtemp")
       \/ /\ pc' = "p_cleanup"
          /\ loc' = [loc EXCEPT !.k = 0, !.back = "strings"]
          /\ log' = Note("mkdtemp_failed")
          /\ UNCHANGED tmp
    /\ UNCHANGED <<op, ret>>
    /\ ProbeFrame

\* subprocess.run([appimage, "--appimage-extract"], timeout=30): exit status
\* 0 (for an AppImage), another exit status, TimeoutExpired or OSError
\* (caught), or an exception the except clause does not list (the output
\* is not valid text)
ProbeExtract ==
    /\ pc = "p_extract"
    /\ \/ /\ Head(fs[Resolve(fs, loc.target)].data) = "artifact"
          /\ pc' = "p_scan"
          /\ log' = Note("extracted")
          /\ UNCHANGED loc
       \/ \E e \in {"nonzero", "timeout", "oserror"} :
            /\ pc' = "p_cleanup"
            /\ loc' = [loc EXCEPT !.back = "strings"]
            /\ log' = Note(e)
       \/ /\ pc' = "p_cleanup"
          /\ loc' = [loc EXCEPT !.back = "raise"]
          /\ log' = Note("uncaught")
    /\ UNCHANGED <<op, ret, tmp>>
    /\ ProbeFrame

\* the desktop files of the extracted tree: a line X-AppImage-Version= with
\* a value returns it; unreadable files are skipped
ProbeScan ==
    /\ pc = "p_scan"
    /\ \/ /\ loc' = [loc EXCEPT !.back = "return", !.version = EmbeddedVersion(fs, loc.target)]
          /\ log' = Note("found")
       \/ /\ loc' = [loc EXCEPT !.back = "strings"]
          /\ log' = Note("no_metadata")
    /\ pc' = "p_cleanup"
    /\ UNCHANGED <<op, ret, tmp>>
    /\ ProbeFrame

\* finally: if extract_dir and extract_dir.exists(): try: shutil.rmtree
\* except OSError: pass.  Then the pending return or exception, or on to
\* the strings fallback.
ProbeCleanup ==
    /\ pc = "p_cleanup"
    /\ \E removed \in (IF loc.k = 1 THEN {TRUE, FALSE} ELSE {FALSE}) :
        LET lg == IF loc.k = 1 /\ ~removed THEN Note("rmtree_failed") ELSE log IN
        /\ tmp' = IF removed THEN RemoveTree(tmp) ELSE tmp
        /\ IF loc.back = "return" THEN ProbeReturns(Some(loc.version), lg)
           ELSE IF loc.back = "raise" THEN Raises(lg)
           ELSE /\ pc' = "p_strings"
                /\ log' = lg
                /\ loc' = [loc EXCEPT !.k = 0, !.back = ""]
                /\ UNCHANGED <<op, ret>>
    /\ ProbeFrame

\* subprocess.run(["strings", appimage]): a version line, none, a caught
\* failure, or output that is not valid text (not caught)
ProbeStrings ==
    /\ pc = "p_strings"
    /\ \/ /\ Head(fs[Resolve(fs, loc.target)].data) = "artifact"
          /\ ProbeReturns(Some(EmbeddedVersion(fs, loc.target)), Note("strings"))
       \/ ProbeReturns(Absent, Note("nothing"))
       \/ Raises(log)
    /\ UNCHANGED tmp
    /\ ProbeFrame

InitProbe == InitWith({NoCache}, {0}, {"x86_64"}, InitFilesystems, {"absent"})

NextProbe ==
    \/ StartProbe
    \/ ProbeName
    \/ ProbeMkdtemp
    \/ ProbeExtract
    \/ ProbeScan
    \/ ProbeCleanup
    \/ ProbeStrings

SpecProbe == InitProbe /\ [][NextProbe]_vars

(***************************************************************************)
(* Properties                                                               *)
(***************************************************************************)
Finished(o) == op = "idle" /\ ret.op = o
Has(e) == \E i \in 1..Len(log.events) : log.events[i] = e
Before(a, b) ==
    \E i, j \in 1..Len(log.events) : i < j /\ log.events[i] = a /\ log.events[j] = b
BackupPaths == {BackupPathOf(p) : p \in ArtifactPaths \cup PointerDirPaths}
GotDoc(lg) == lg.load = "hit" \/ lg.fetch = "hit" \/ lg.stale = "hit"

\* C1: get_version_history goes through the tiers in order: a manifest from
\* load() is returned without a fetch; otherwise a fetch is attempted, and a
\* fetched manifest is saved and returned; load_stale() is consulted only
\* after a failed fetch; when both fail the result is absent; and the call
\* never ends in an exception.
C1_ThreeTierFallback ==
    Finished("get_version_history") =>
        LET lg == log.manifest[1] IN
        /\ ret.st = "ok"
        /\ lg.load = "hit" =>
             lg.fetch = "none" /\ lg.stale = "none" /\ ret.b /\ ret.doc = cache.doc
        /\ lg.load = "miss" => lg.fetch # "none"
        /\ lg.fetch = "hit" => lg.saved /\ lg.stale = "none" /\ ret.b
        /\ lg.stale # "none" => lg.fetch = "miss"
        /\ (lg.fetch = "miss" /\ lg.stale = "miss") => ~ret.b

\* C8: load() returns the stored manifest exactly when the cache file exists,
\* now - mtime < 15 minutes and the content parses; in every other case,
\* a file removed during the call included, it returns absent; it never raises.
C8_LoadFreshOrAbsent ==
    Finished("load") =>
        LET c == log.manifest[1].cache
            t == log.manifest[1].now
            fresh == c.exists /\ t - c.mtime < 15 * 60 /\ c.kind = "json"
        IN  /\ ret.st = "ok"
            /\ ret.b => fresh /\ ret.doc = c.doc
            /\ (fresh /\ cache.exists) => ret.b

\* C9: get_latest_remote_version returns the greatest, by numeric tuple
\* order, of the parseable versions that have a URL for the host platform;
\* an unparseable identifier in the manifest never makes it crash and is
\* never returned; the result is absent when no parseable version remains.
C9_LatestRemoteIsNumericMax ==
    (Finished("get_latest_remote_version") /\ GotDoc(log.manifest[1])) =>
        LET parseable ==
                {ret.doc[i].version : i \in
                    {j \in 1..Len(ret.doc) :
                        /\ get_platform(arch) \in ret.doc[j].platforms
                        /\ parse_version_tuple(ret.doc[j].version).ok}}
        IN  /\ ret.st = "ok"
            /\ parseable = {} => ~ret.b
            /\ parseable # {} =>
                 /\ ret.b
                 /\ ret.val \in parseable
                 /\ \A w \in parseable :
                      ~TupleLess(parse_version_tuple(ret.val).t, parse_version_tuple(w).t)

ActivationPcs == {"c_variants", "c_backup", "c_replace", "c_symlink", "s_desktop", "s_running"}

\* C2: whenever update_cursor returns success, the ActivePointer is a symlink
\* that resolves to the artifact of the version get_latest_remote_version
\* returned, a regular file at that version's path, and a download of it, if
\* there was one, was complete before the symlink was made; starting without
\* artifacts and without a pointer, the latest version is downloaded first.
C2_UpdateActivatesLatest ==
    (Finished("update_cursor") /\ ret.st = "ok" /\ ret.b) =>
        LET target == get_appimage_path(ret.arg) IN
        /\ IsSymlink(fs, CURSOR_APPIMAGE)
        /\ Resolve(fs, CURSOR_APPIMAGE) = target
        /\ fs[target].t = "file"
        /\ Has("written") => Before("written", "linked")
        /\ ~Exists(pre, target) => Before("written", "linked")

\* C3: update_cursor calls download_version only when the latest remote
\* version differs from the latest local one; when they are equal it calls
\* select_version without a download; and every update_cursor that resolved
\* a latest remote version and did not stop on a failed download calls
\* select_version.
C3_DownloadOnlyWhenDiffers ==
    Finished("update_cursor") =>
        /\ Has("download") => Has("local_differs")
        /\ Has("local_equal") => ~Has("download") /\ Has("select")
        /\ (Has("remote") /\ ret.arg # NoVersion
              /\ ~(Has("download") /\ ~Has("download_true"))) => Has("select")

\* C4: select_version(v) without an artifact for v returns False and leaves
\* every file as it was: the ActivePointer (absent, symlink with its target,
\* or regular file), the case variants and the backups.
C4_MissingArtifactLeavesPointer ==
    (Finished("select_version") /\ ~Exists(pre, get_appimage_path(ret.arg))) =>
        /\ ret.st = "ok"
        /\ ~ret.b
        /\ fs = pre

C4_Witness ==
    /\ Finished("select_version")
    /\ ~Exists(pre, get_appimage_path(ret.arg))
    /\ IsSymlink(pre, CURSOR_APPIMAGE)
    /\ pre[VariantUpper].t = "file"
    /\ ~ret.b

\* C5: when the ActivePointer is a symlink and select_version(v) is called
\* for a present v, the old symlink is unlinked and not backed up, and the
\* new symlink leads to v's artifact; whatever is backed up during the call
\* is a regular file, so no backup ever holds a symlink, and the pointer's
\* own backup path changes only for a regular file cursor.appimage, whose
\* backup has the same name.
C5_SymlinkReplacedWithoutBackup ==
    /\ pc = "c_backup" => fs[loc.victim].t = "file"
    /\ (Finished("select_version") /\ IsSymlink(pre, CURSOR_APPIMAGE)
          /\ Exists(pre, get_appimage_path(ret.arg))) =>
            /\ \A b \in BackupPaths : fs[b] # pre[b] => fs[b].t # "link"
            /\ pre[VariantLower].t # "file" =>
                 fs[BackupPathOf(CURSOR_APPIMAGE)] = pre[BackupPathOf(CURSOR_APPIMAGE)]
            /\ (ret.st = "ok" /\ ret.b) =>
                 /\ fs[CURSOR_APPIMAGE] = LinkNode(get_appimage_path(ret.arg))
                 /\ Before("unlink", "linked")

C5_Witness ==
    /\ Finished("select_version")
    /\ pre[CURSOR_APPIMAGE] = LinkNode(get_appimage_path(V120))
    /\ ret.arg = V130
    /\ ret.b
    /\ fs[CURSOR_APPIMAGE] = LinkNode(get_appimage_path(V130))
    /\ \A b \in BackupPaths : fs[b] = pre[b]

\* C6: whenever the artifact for v exists, download_version(v) returns True
\* and transfers nothing.
C6_DownloadIdempotent ==
    (Finished("download_version") /\ Exists(pre, get_appimage_path(ret.arg))) =>
        /\ ~Has("transfer")
        /\ fs = pre
        /\ ret.st = "ok" => ret.b

C10_AtomicSwitch ==
    (op = "select_version" /\ pc \in ActivationPcs
       /\ IsSymlink(pre, CURSOR_APPIMAGE) /\ Exists(pre, CURSOR_APPIMAGE)) =>
        /\ Exists(fs, CURSOR_APPIMAGE)
        /\ Resolve(fs, CURSOR_APPIMAGE) \in
             {Resolve(pre, CURSOR_APPIMAGE), get_appimage_path(loc.version)}

\* C11: select_version(v) with v's artifact present always returns, and
\* returns True exactly when create_symlink made the ActivePointer's symlink:
\* no failure while removing a case variant, backing up a file, rewriting
\* the desktop file or relinking a running instance's path leaves the call
\* as an exception or makes it return False after the symlink was made.
C11_ResultIsStepC ==
    (Finished("select_version") /\ Exists(pre, get_appimage_path(ret.arg))) =>
        /\ ret.st = "ok"
        /\ ret.b <=> Has("linked")

\* C12: when link.symlink_to fails, select_version returns False and an
\* ActivePointer that was a symlink to an artifact is still there, leading
\* to the same artifact.
C12_FailedLinkKeepsPointer ==
    (Finished("select_version") /\ Has("link_failed")) =>
        /\ ret.st = "ok" /\ ~ret.b
        /\ (IsSymlink(pre, CURSOR_APPIMAGE) /\ Exists(pre, CURSOR_APPIMAGE)) =>
             fs[CURSOR_APPIMAGE] = pre[CURSOR_APPIMAGE]

\* C14: select_version never deletes, renames or replaces an artifact: every
\* artifact that was a regular file before the call is the same regular file
\* after it, also when an instance runs from an artifact path.
C14_ArtifactsUntouched ==
    Finished("select_version") =>
        \A p \in ArtifactPaths : pre[p].t = "file" => fs[p] = pre[p]

\* C15: in one update_cursor, when the latest remote version v is not present
\* locally, the URL lookup of download_version(v) finds a URL for v, whatever
\* happened to the cache and the network since v was chosen.
C15_UrlFromSameManifest ==
    (Finished("update_cursor") /\ Has("download")
       /\ ~Exists(pre, get_appimage_path(ret.arg))) =>
        ~Has("url_missing")

\* C13: every temporary directory extract_version_from_appimage makes is gone
\* when it returns or raises, on every path (version found, no metadata,
\* non-zero exit, timeout, exception, failed removal): between probes no
\* temporary directory is on disk.
C13_TempDirsRemoved == op = "idle" => tmp = 0

====
